---- MODULE Spec2Model ----
(***************************************************************************)
(* Model of src/email_slack.py: the WorkUpdateWorkflow graph, its three    *)
(* compiled subgraphs, and the two collaborators it calls (EmailAgent,     *)
(* SlackAgent).  The graph engine is modelled at the granularity of its    *)
(* supersteps: a main-graph node invokes its subgraph (input written to    *)
(* the subgraph's channels), the subgraph's scheduled nodes run, their     *)
(* writes are applied through the per-field channels (operator.or_ for the *)
(* two annotated flags, last-value for the others), and the subgraph's     *)
(* output is written back to the main graph's channels.                    *)
(***************************************************************************)
EXTENDS Integers, Sequences, FiniteSets, TLC

\* ------------------------------------------------------------------------
\* Bounds and input domains
\* ------------------------------------------------------------------------

\* longest list of messages one process_query call returns in the model
MaxResults == 2

\* seconds in a day: datetime.time() keeps the time of day of a datetime
DaySeconds == 86400

\* datetime.time(21, 0), as seconds since midnight
Cutoff == 21 * 3600

\* clock readings datetime.datetime.now() can return, as seconds since the
\* midnight of the first day: 20:30:00, 20:59:59, 21:00:00, 21:30:00 and
\* 00:10:00 of the next day
Ticks == {73800, 75599, 75600, 77400, 87000}

\* value of a channel nothing has been written to yet
NoTime == -1
NoUser == "<unset>"

\* message contents the mail agent can answer with, as character sequences:
\* "Work Update Found", "Email Sent", "work update"
MsgFound == <<"W","o","r","k"," ","U","p","d","a","t","e"," ","F","o","u","n","d">>
MsgSent == <<"E","m","a","i","l"," ","S","e","n","t">>
MsgNear == <<"w","o","r","k"," ","u","p","d","a","t","e">>
Contents == {MsgFound, MsgSent, MsgNear}

\* the marker phrases 'work update found' and 'email sent'
WorkUpdateMarker == <<"w","o","r","k"," ","u","p","d","a","t","e"," ","f","o","u","n","d">>
EmailSentMarker == <<"e","m","a","i","l"," ","s","e","n","t">>

\* every list process_query can return: the last message of each event
ExtractedData == UNION {[1..n -> Contents] : n \in 0..MaxResults}

\* what slack_sdk's chat_postMessage can do: succeed, raise SlackApiError,
\* or raise another exception (a transport error, a request error)
PostOutcomes == {"ok", "SlackApiError", "OtherError"}

\* ------------------------------------------------------------------------
\* Pure helpers
\* ------------------------------------------------------------------------

UpperCase == <<"A","B","C","D","E","F","G","H","I","J","K","L","M",
               "N","O","P","Q","R","S","T","U","V","W","X","Y","Z">>
LowerCase == <<"a","b","c","d","e","f","g","h","i","j","k","l","m",
               "n","o","p","q","r","s","t","u","v","w","x","y","z">>

\* str.lower() on one character
LowerChar(c) ==
    IF \E i \in 1..26 : UpperCase[i] = c
    THEN LowerCase[CHOOSE i \in 1..26 : UpperCase[i] = c]
    ELSE c

\* the comparison made on the content as it came, without lowering it
lower_skipped(s) == s

\* str.lower()
lower(s) == [i \in 1..Len(s) |-> LowerChar(s[i])]

\* pat in s, for strings
contains(pat, s) ==
    \E i \in 0..(Len(s) - Len(pat)) : SubSeq(s, i + 1, i + Len(pat)) = pat

\* any(marker in result.content.lower() for result in results)
any_marker(marker, results) ==
    \E i \in 1..Len(results) : contains(marker, lower(results[i]))

\* datetime.time(): the time of day of a datetime
time(dt) == dt % DaySeconds

\* a reducer that toggles instead of accumulating (operator.xor)
or_xor(a, b) == a # b

\* operator.or_, the reducer of update_received and reminder_sent
or_(a, b) == a \/ b

\* the f-strings built by the nodes, kept as their literal parts and the
\* interpolated user_email
check_query(user) == <<"Check if ", user, " has sent a work update today">>
reminder_query(user) ==
    <<"Send an email to ", user, " reminding them to send their work update">>
slack_text(user) ==
    <<"Reminder: Please send your work update via email to ", user>>

\* SlackAgent.send_slack_message: True when chat_postMessage returns, False
\* when it raises SlackApiError; any other exception is not caught
SlackRaises(outcome) == outcome = "OtherError"
send_slack_message(outcome) == outcome = "ok"

\* ------------------------------------------------------------------------
\* State
\* ------------------------------------------------------------------------

VARIABLES
    pc,     \* main graph: node to run next, or "start", "END", "error"
    state,  \* the main graph's channels (WorkUpdateState)
    sub,    \* the subgraph being run by the current main node
    clock,  \* last reading of datetime.datetime.now(), NoTime before the first
    calls,  \* collaborator calls made so far, in order
    exc,    \* exception that ended the run, "none" if none
    trail   \* main-graph nodes that have returned, in order

vars == <<pc, state, sub, clock, calls, exc, trail>>

\* channels before any write: bool() for the reducer channels, nothing for
\* the last-value channels
EmptyChannels ==
    [user_email |-> NoUser,
     update_received |-> FALSE,
     current_time |-> NoTime,
     reminder_sent |-> FALSE,
     slack_message_sent |-> FALSE]

NoSub ==
    [graph |-> "none", state |-> EmptyChannels, tasks |-> {},
     writes |-> <<>>, applied |-> FALSE]

\* BinaryOperatorAggregate.update: fold the step's values into the channel
RECURSIVE reduce_flag(_, _, _)
reduce_flag(value, writes, field) ==
    IF writes = <<>> THEN value
    ELSE reduce_flag(or_(value, Head(writes)[field]), Tail(writes), field)

\* a last-value channel accepts exactly one value per step; every node
\* returns {**state, ...}, so each write carries every key
InvalidUpdate(writes) == Len(writes) > 1

\* apply_writes for one superstep whose last-value channels got one value
apply_writes(channels, writes) ==
    [user_email |-> writes[Len(writes)].user_email,
     update_received |-> reduce_flag(channels.update_received, writes, "update_received"),
     current_time |-> writes[Len(writes)].current_time,
     reminder_sent |-> reduce_flag(channels.reminder_sent, writes, "reminder_sent"),
     slack_message_sent |-> writes[Len(writes)].slack_message_sent]

\* invoke(state) on a compiled subgraph: the input is written to fresh
\* channels and the entry nodes are scheduled
invoke(graph, input, entry) ==
    [graph |-> graph, state |-> apply_writes(EmptyChannels, <<input>>),
     tasks |-> entry, writes |-> <<>>, applied |-> FALSE]

Init ==
    /\ pc = "start"
    /\ state = EmptyChannels
    /\ sub = NoSub
    /\ clock = NoTime
    /\ calls = <<>>
    /\ exc = "none"
    /\ trail = <<>>

\* ------------------------------------------------------------------------
\* Node return values
\* ------------------------------------------------------------------------

\* run_workflow's initial_state, with now the reading of the clock
initial_state(now) ==
    [user_email |-> "jhananinallasamy1234@gmail.com",
     update_received |-> FALSE,
     current_time |-> now,
     reminder_sent |-> FALSE,
     slack_message_sent |-> FALSE]

\* check_email_update: {**state, "update_received": update_received}
check_email_update_return(st, results) ==
    [st EXCEPT !.update_received = any_marker(WorkUpdateMarker, results)]

\* check_time returning the state it was given, the reading dropped
check_time_return_stale(st, now) == st

\* check_time storing the address the workflow was constructed with
\* (main() passes "jhananinallasamy@gmail.com") along with the reading
check_time_return_rebinds_user(st, now) ==
    [st EXCEPT !.current_time = now, !.user_email = "jhananinallasamy@gmail.com"]

\* check_time also marking the reminder as sent
check_time_return_marks_reminder(st, now) ==
    [st EXCEPT !.current_time = now, !.reminder_sent = TRUE]

\* check_time: {**state, "current_time": current_time}
check_time_return(st, now) ==
    [st EXCEPT !.current_time = now]

\* send_slack_reminder recording the delivery but not the reminder
send_slack_reminder_return_delivery_only(st, slack_sent) ==
    [st EXCEPT !.slack_message_sent = slack_sent]

\* send_slack_reminder storing the result under "update_received" instead
\* of "slack_message_sent"
send_slack_reminder_return_wrong_key(st, slack_sent) ==
    [st EXCEPT !.update_received = slack_sent, !.reminder_sent = slack_sent]

\* send_slack_reminder: {**state, "slack_message_sent": slack_sent,
\* "reminder_sent": slack_sent}
send_slack_reminder_return(st, slack_sent) ==
    [st EXCEPT !.slack_message_sent = slack_sent, !.reminder_sent = slack_sent]

\* send_email_reminder: {**state, "reminder_sent": email_sent}
send_email_reminder_return(st, results) ==
    [st EXCEPT !.reminder_sent = any_marker(EmailSentMarker, results)]

\* ------------------------------------------------------------------------
\* Edges
\* ------------------------------------------------------------------------

\* the entry point with the comparison turned round
reminder_entry_point_reversed(st) ==
    IF ~st.update_received /\ time(st.current_time) >= Cutoff
    THEN "send_slack_reminder"
    ELSE "send_email_reminder"

\* the entry point with 21:00:00 itself counted as before the cutoff
reminder_entry_point_inclusive(st) ==
    IF ~st.update_received /\ time(st.current_time) <= Cutoff
    THEN "send_slack_reminder"
    ELSE "send_email_reminder"

\* the conditional entry point of reminder_graph
reminder_entry_point(st) ==
    IF ~st.update_received /\ time(st.current_time) < Cutoff
    THEN "send_slack_reminder"
    ELSE "send_email_reminder"

\* the nodes reminder_graph schedules from START: the plain edge
\* START -> send_slack_reminder and the conditional entry point are both
\* edges out of START, and each schedules its target
reminder_entry(st) == {"send_slack_reminder"} \cup {reminder_entry_point(st)}

\* the conditional edge with its two targets swapped
time_check_branch_swapped(st) ==
    IF st.update_received THEN "send_reminder" ELSE "END"

\* the conditional edge out of time_check
time_check_branch(st) ==
    IF ~st.update_received THEN "send_reminder" ELSE "END"

\* the main graph's edges with email_update_check wired to send_reminder
next_node_skips_time_check(node, st) ==
    CASE node = "email_update_check" -> "send_reminder"
      [] node = "time_check" -> time_check_branch(st)
      [] node = "send_reminder" -> "END"

\* the main graph's edges
next_node(node, st) ==
    CASE node = "email_update_check" -> "time_check"
      [] node = "time_check" -> time_check_branch(st)
      [] node = "send_reminder" -> "END"

\* ------------------------------------------------------------------------
\* Steps
\* ------------------------------------------------------------------------

\* a scheduled subgraph node finished and handed its writes to the step
TaskDone(name, w) ==
    /\ sub' = [sub EXCEPT !.tasks = @ \ {name}, !.writes = Append(@, w)]
    /\ UNCHANGED <<pc, exc>>

\* a scheduled subgraph node raised: the step, the subgraph, the main node
\* and the run fail; the exception is not caught anywhere up to main()
TaskRaise(name, e) ==
    /\ sub' = [sub EXCEPT !.tasks = @ \ {name}]
    /\ pc' = "error"
    /\ exc' = IF exc = "none" THEN e ELSE exc

\* run_workflow: build initial_state and start streaming the main graph
run_workflow ==
    /\ pc = "start"
    /\ \E now \in Ticks :
         /\ now >= clock
         /\ clock' = now
         /\ state' = apply_writes(EmptyChannels, <<initial_state(now)>>)
    /\ pc' = "email_update_check"
    /\ UNCHANGED <<sub, calls, exc, trail>>

\* run_email_update_subgraph: invoke the email update subgraph
run_email_update_subgraph ==
    /\ pc = "email_update_check"
    /\ sub.graph = "none"
    /\ sub' = invoke("email_update_check", state, {"check_email_update"})
    /\ UNCHANGED <<pc, state, clock, calls, exc, trail>>

\* run_time_check_subgraph: invoke the time check subgraph
run_time_check_subgraph ==
    /\ pc = "time_check"
    /\ sub.graph = "none"
    /\ sub' = invoke("time_check", state, {"check_time"})
    /\ UNCHANGED <<pc, state, clock, calls, exc, trail>>

\* run_reminder_subgraph: invoke the reminder subgraph
run_reminder_subgraph ==
    /\ pc = "send_reminder"
    /\ sub.graph = "none"
    /\ sub' = invoke("send_reminder", state,
                     reminder_entry(apply_writes(EmptyChannels, <<state>>)))
    /\ UNCHANGED <<pc, state, clock, calls, exc, trail>>

\* check_email_update: ask the mail agent, scan the answer for the marker
check_email_update ==
    /\ "check_email_update" \in sub.tasks
    /\ \/ \E results \in ExtractedData :
            /\ calls' = Append(calls,
                   [agent |-> "email", text |-> check_query(sub.state.user_email),
                    outcome |-> "returned", results |-> results])
            /\ TaskDone("check_email_update",
                        check_email_update_return(sub.state, results))
       \/ /\ calls' = Append(calls,
                   [agent |-> "email", text |-> check_query(sub.state.user_email),
                    outcome |-> "raised", results |-> <<>>])
          /\ TaskRaise("check_email_update", "MailQueryError")
    /\ UNCHANGED <<state, clock, trail>>

\* check_time: read the clock
check_time ==
    /\ "check_time" \in sub.tasks
    /\ \E now \in Ticks :
         /\ now >= clock
         /\ clock' = now
         /\ TaskDone("check_time", check_time_return(sub.state, now))
    /\ UNCHANGED <<state, calls, trail>>

\* send_slack_reminder: post the reminder to the Slack channel
send_slack_reminder ==
    /\ "send_slack_reminder" \in sub.tasks
    /\ \E outcome \in PostOutcomes :
         /\ calls' = Append(calls,
                [agent |-> "slack", text |-> slack_text(sub.state.user_email),
                 outcome |-> outcome, results |-> <<>>])
         /\ IF SlackRaises(outcome)
            THEN TaskRaise("send_slack_reminder", "SlackTransportError")
            ELSE TaskDone("send_slack_reminder",
                     send_slack_reminder_return(sub.state, send_slack_message(outcome)))
    /\ UNCHANGED <<state, clock, trail>>

\* send_email_reminder: ask the mail agent to send the reminder email
send_email_reminder ==
    /\ "send_email_reminder" \in sub.tasks
    /\ \/ \E results \in ExtractedData :
            /\ calls' = Append(calls,
                   [agent |-> "email", text |-> reminder_query(sub.state.user_email),
                    outcome |-> "returned", results |-> results])
            /\ TaskDone("send_email_reminder",
                        send_email_reminder_return(sub.state, results))
       \/ /\ calls' = Append(calls,
                   [agent |-> "email", text |-> reminder_query(sub.state.user_email),
                    outcome |-> "raised", results |-> <<>>])
          /\ TaskRaise("send_email_reminder", "MailQueryError")
    /\ UNCHANGED <<state, clock, trail>>

\* end of the subgraph's superstep: every scheduled node has finished and
\* the writes are applied to the channels, or rejected
superstep_end ==
    /\ pc # "error"
    /\ sub.graph # "none"
    /\ sub.tasks = {}
    /\ ~sub.applied
    /\ IF InvalidUpdate(sub.writes)
       THEN /\ pc' = "error"
            /\ exc' = "InvalidUpdateError"
            /\ UNCHANGED sub
       ELSE /\ sub' = [sub EXCEPT !.state = apply_writes(@, sub.writes),
                                  !.applied = TRUE]
            /\ UNCHANGED <<pc, exc>>
    /\ UNCHANGED <<state, clock, calls, trail>>

\* the main node returns the subgraph's output; it is written to the main
\* graph's channels and the outgoing edge is followed
node_return ==
    /\ pc = sub.graph
    /\ sub.applied
    /\ state' = apply_writes(state, <<sub.state>>)
    /\ pc' = next_node(pc, state')
    /\ trail' = Append(trail, pc)
    /\ sub' = NoSub
    /\ UNCHANGED <<clock, calls, exc>>

Next ==
    \/ run_workflow
    \/ run_email_update_subgraph
    \/ run_time_check_subgraph
    \/ run_reminder_subgraph
    \/ check_email_update
    \/ check_time
    \/ send_slack_reminder
    \/ send_email_reminder
    \/ superstep_end
    \/ node_return

Spec == Init /\ [][Next]_vars

\* ------------------------------------------------------------------------
\* Type invariant
\* ------------------------------------------------------------------------

TypeOK ==
    /\ pc \in {"start", "email_update_check", "time_check", "send_reminder",
               "END", "error"}
    /\ state.update_received \in BOOLEAN
    /\ state.reminder_sent \in BOOLEAN
    /\ state.slack_message_sent \in BOOLEAN
    /\ state.current_time \in Ticks \cup {NoTime}
    /\ sub.tasks \subseteq {"check_email_update", "check_time",
                            "send_slack_reminder", "send_email_reminder"}
    /\ exc \in {"none", "MailQueryError", "SlackTransportError",
                "InvalidUpdateError"}

\* ------------------------------------------------------------------------
\* Vocabulary of the properties
\* ------------------------------------------------------------------------

\* the main-graph node has returned
Returned(node) == \E i \in 1..Len(trail) : trail[i] = node

\* calls of SlackAgent.send_slack_message
SlackCalls == {i \in 1..Len(calls) : calls[i].agent = "slack"}

\* calls of EmailAgent.process_query carrying the send-reminder instruction
ReminderMailCalls ==
    {i \in 1..Len(calls) :
        calls[i].agent = "email" /\ calls[i].text = reminder_query(state.user_email)}

\* the update check found nothing and the time check recorded a time
NoUpdateAt(cond) ==
    /\ Returned("time_check")
    /\ ~state.update_received
    /\ cond

\* the recorded time is before 21:00 / is 21:00:00 or later
BeforeCutoff == time(state.current_time) < Cutoff
AtOrAfterCutoff == time(state.current_time) >= Cutoff

\* ------------------------------------------------------------------------
\* Properties
\* ------------------------------------------------------------------------

\* C1: when the time recorded by the time check is 21:00:00 or later and no
\* update was received, the Notification Sender is never invoked and a run
\* that reaches END has issued the send-reminder instruction.
C1_EmailPathOnly ==
    NoUpdateAt(AtOrAfterCutoff) =>
        /\ SlackCalls = {}
        /\ pc = "END" => ReminderMailCalls # {}

\* C2: when the recorded time is strictly before 21:00 and no update was
\* received, send_email_reminder is neither scheduled nor run, and a run that
\* reaches END has invoked the Notification Sender exactly once.
C2_ChatPathOnly ==
    NoUpdateAt(BeforeCutoff) =>
        /\ ReminderMailCalls = {}
        /\ "send_email_reminder" \notin sub.tasks
        /\ pc = "END" => Cardinality(SlackCalls) = 1

C2_Witness ==
    /\ NoUpdateAt(BeforeCutoff)
    /\ pc = "END"
    /\ SlackCalls # {}

\* C3: once the update check has returned with update_received true, the
\* run goes through the time check to END: the reminder stage is never
\* entered, the update-check query stays the only collaborator call, and at
\* END update_received is true and reminder_sent is false.
C3_UpdateReceivedSkipsReminder ==
    (Returned("email_update_check") /\ state.update_received) =>
        /\ pc \in {"time_check", "END"}
        /\ sub.graph # "send_reminder"
        /\ ~Returned("send_reminder")
        /\ Len(calls) = 1
        /\ calls[1].text = check_query(state.user_email)
        /\ any_marker(WorkUpdateMarker, calls[1].results)
        /\ ~state.reminder_sent
        /\ pc = "END" => trail = <<"email_update_check", "time_check">>

C3_Witness ==
    /\ pc = "END"
    /\ state.update_received
    /\ ~state.reminder_sent
    /\ Len(calls) = 1

\* C4: update_received and reminder_sent never go from true to false: not in
\* the main graph's state, not in a subgraph's state, not when a subgraph is
\* given the main state as input, not when its output is written back.
C4_FlagsMonotonic ==
    [][/\ state.update_received => state'.update_received
       /\ state.reminder_sent => state'.reminder_sent
       /\ (sub.graph # "none" /\ sub'.graph = sub.graph) =>
            /\ sub.state.update_received => sub'.state.update_received
            /\ sub.state.reminder_sent => sub'.state.reminder_sent
       /\ (sub.graph = "none" /\ sub'.graph # "none") =>
            /\ state.update_received => sub'.state.update_received
            /\ state.reminder_sent => sub'.state.reminder_sent
       /\ (sub.graph # "none" /\ sub'.graph = "none") =>
            /\ sub.state.update_received => state'.update_received
            /\ sub.state.reminder_sent => state'.reminder_sent]_vars

C4_Witness ==
    /\ state.update_received
    /\ sub.graph = "time_check"
    /\ sub.applied
    /\ sub.state.update_received

\* C5: on the chat path a failed delivery raises nothing: whatever made the
\* delivery fail, the run does not end in an error, and at END
\* slack_message_sent and reminder_sent are both false.
C5_ChatFailureNeverRaises ==
    \A i \in SlackCalls :
        (NoUpdateAt(BeforeCutoff) /\ calls[i].outcome # "ok") =>
            /\ pc # "error"
            /\ exc = "none"
            /\ pc = "END" => (~state.slack_message_sent /\ ~state.reminder_sent)

\* C6: a run that reaches END on the chat path has invoked the Notification
\* Sender once, with the reminder text built from the run's user_email, and
\* slack_message_sent and reminder_sent both equal the result of that call.
C6_ChatResultRecorded ==
    (NoUpdateAt(BeforeCutoff) /\ pc = "END") =>
        /\ Cardinality(SlackCalls) = 1
        /\ \A i \in SlackCalls :
             /\ calls[i].text = slack_text(state.user_email)
             /\ state.user_email = initial_state(clock).user_email
             /\ state.slack_message_sent = send_slack_message(calls[i].outcome)
             /\ state.reminder_sent = send_slack_message(calls[i].outcome)

C6_Witness ==
    /\ NoUpdateAt(BeforeCutoff)
    /\ pc = "END"
    /\ state.reminder_sent
    /\ state.slack_message_sent

\* C7: on the email path, when the run is over, no collaborator call has
\* raised and the mail agent answered the send-reminder instruction, the run
\* is at END and reminder_sent is true exactly when one of the returned
\* messages contains 'email sent'.
C7_EmailResultRecorded ==
    \A i \in ReminderMailCalls :
        (/\ NoUpdateAt(AtOrAfterCutoff)
         /\ pc \in {"END", "error"}
         /\ \A j \in 1..Len(calls) : calls[j].outcome \in {"returned", "ok", "SlackApiError"}) =>
            /\ pc = "END"
            /\ state.reminder_sent = any_marker(EmailSentMarker, calls[i].results)

\* C8: in a run whose recorded time is 21:00:00 or later and that received
\* no update, slack_message_sent is false in the main graph's state and in
\* the reminder subgraph's state, whatever send_slack_message returned.
C8_NoDispatchFlagOnEmailPath ==
    NoUpdateAt(AtOrAfterCutoff) =>
        /\ ~state.slack_message_sent
        /\ ~sub.state.slack_message_sent

C8_Witness ==
    /\ NoUpdateAt(AtOrAfterCutoff)
    /\ ReminderMailCalls # {}
    /\ \E i \in SlackCalls : calls[i].outcome = "ok"
    /\ ~state.slack_message_sent

\* C9 as stated: the time check is the only step that assigns current_time.
C9_OnlyTimeCheckAssigns ==
    [][state'.current_time # state.current_time => pc = "time_check"]_vars

\* C9 as amended: current_time is assigned at workflow start and re-assigned
\* only by the time check; once the time check has returned, and so at both
\* branch decisions, it holds the reading the time check took.
C9_AssignedAtStartThenByTimeCheck ==
    /\ [][state'.current_time # state.current_time
            => pc \in {"start", "time_check"}]_vars
    /\ [](pc = "start" <=> state.current_time = NoTime)
    /\ [](Returned("time_check") => state.current_time = clock)
    /\ [](sub.graph = "send_reminder" => sub.state.current_time = clock)

C9_Witness ==
    /\ sub.graph = "send_reminder"
    /\ sub.state.current_time = clock
    /\ state.current_time = clock

\* C10: when process_query raises, the run ends in an error, no later stage
\* runs, and the failing call is the last collaborator call of the run.
C10_MailErrorIsFatalAndLast ==
    \A i \in 1..Len(calls) :
        (calls[i].agent = "email" /\ calls[i].outcome = "raised") =>
            /\ pc = "error"
            /\ exc # "none"
            /\ i = Len(calls)

\* the messages that carry 'work update found' in some mix of cases: of the
\* contents the mail agent answers with, "Work Update Found" alone
FoundIn(results) == \E i \in 1..Len(results) : results[i] = MsgFound

\* C11: the update check leaves update_received equal to its value before
\* the stage OR found, where found says that one of the returned messages
\* carries 'work update found' in any mix of cases; as the flag starts
\* false, it is true after the stage exactly when such a message came back.
C11_UpdateReceivedIsOrOfFound ==
    /\ [][(pc = "email_update_check" /\ pc' = "time_check") =>
            state'.update_received
                = (state.update_received \/ FoundIn(calls[1].results))]_vars
    /\ [](Returned("email_update_check") =>
            state.update_received = FoundIn(calls[1].results))
    /\ []((sub.graph = "email_update_check" /\ sub.applied) =>
            sub.state.update_received = FoundIn(calls[1].results))

C11_Witness ==
    /\ Returned("email_update_check")
    /\ state.update_received
    /\ Len(calls[1].results) = 2
    /\ calls[1].results[1] = MsgNear
    /\ calls[1].results[2] = MsgFound

\* C12: a run in which no collaborator call raises does not end in an
\* error, and runs its stages in the order update check, time check,
\* reminder, each at most once.
C12_NoRaiseReachesEnd ==
    (\A i \in 1..Len(calls) : calls[i].outcome \in {"returned", "ok", "SlackApiError"}) =>
        /\ pc # "error"
        /\ exc = "none"
        /\ \E n \in 0..3 :
             trail = SubSeq(<<"email_update_check", "time_check", "send_reminder">>, 1, n)

\* C13: a reminder is dispatched, and the reminder stage entered, only after
\* the update check and then the time check have returned, in that order:
\* the update-check query has been answered and current_time holds the time
\* check's reading.
C13_ReminderAfterBothChecks ==
    (\/ SlackCalls # {}
     \/ ReminderMailCalls # {}
     \/ sub.graph = "send_reminder"
     \/ pc = "send_reminder"
     \/ Returned("time_check")) =>
        /\ Len(trail) >= 2
        /\ trail[1] = "email_update_check"
        /\ trail[2] = "time_check"
        /\ calls[1].text = check_query(state.user_email)
        /\ calls[1].outcome = "returned"
        /\ state.current_time = clock
        /\ \A i \in SlackCalls \cup ReminderMailCalls : i > 1

C13_Witness ==
    /\ SlackCalls # {}
    /\ ReminderMailCalls = {}
    /\ trail = <<"email_update_check", "time_check">>

\* C14: from the initial state on, user_email never changes: no step of the
\* main graph changes it, every subgraph works on the same value, and it is
\* the address run_workflow put in initial_state.
C14_UserEmailImmutable ==
    /\ [][pc # "start" => state'.user_email = state.user_email]_vars
    /\ [](pc # "start" => state.user_email = initial_state(clock).user_email)
    /\ [](sub.graph # "none" => sub.state.user_email = state.user_email)

C14_Witness ==
    /\ pc = "END"
    /\ Returned("send_reminder")
    /\ state.user_email = "jhananinallasamy1234@gmail.com"

\* the fields of a state other than current_time
Frame(st) ==
    <<st.user_email, st.update_received, st.reminder_sent, st.slack_message_sent>>

\* C15: the time check calls neither collaborator and changes only
\* current_time: the subgraph starts from the main state, its node leaves the
\* other four fields as they were, and so does the write back to the main
\* graph.
C15_TimeCheckOnlySetsTime ==
    [][(pc = "time_check" \/ sub.graph = "time_check" \/ sub'.graph = "time_check") =>
         /\ calls' = calls
         /\ Frame(state') = Frame(state)
         /\ sub'.graph = "time_check" => Frame(sub'.state) = Frame(state)
         /\ (sub.graph = "time_check" /\ sub'.graph = "none") =>
              /\ pc' \in {"send_reminder", "END"}
              /\ state'.current_time = clock]_vars

C15_Witness ==
    /\ trail = <<"email_update_check", "time_check">>
    /\ state.update_received
    /\ state.current_time = clock
    /\ Len(calls) = 1

\* C16: update_received and reminder_sent are never both true, in the main
\* graph's state or in a subgraph's.
C16_NoReminderWithUpdate ==
    /\ ~(state.update_received /\ state.reminder_sent)
    /\ ~(sub.state.update_received /\ sub.state.reminder_sent)

C16_Witness ==
    /\ pc = "END"
    /\ state.reminder_sent
    /\ ~state.update_received

\* C17: slack_message_sent true implies reminder_sent true, in the main
\* graph's state and in a subgraph's.
C17_DispatchImpliesReminder ==
    /\ state.slack_message_sent => state.reminder_sent
    /\ sub.state.slack_message_sent => sub.state.reminder_sent

C17_Witness ==
    /\ state.slack_message_sent
    /\ state.reminder_sent
    /\ \E i \in SlackCalls : calls[i].outcome = "ok"

\* C18: in one run send_slack_message is called at most once, the
\* send-reminder instruction is issued at most once, the two never both
\* happen, and process_query is called at most twice.
C18_AtMostOneReminder ==
    /\ Cardinality(SlackCalls) <= 1
    /\ Cardinality(ReminderMailCalls) <= 1
    /\ ~(SlackCalls # {} /\ ReminderMailCalls # {})
    /\ Cardinality({i \in 1..Len(calls) : calls[i].agent = "email"}) <= 2

====
